---------------------------- MODULE Spec2Model ----------------------------
(***************************************************************************)
(* The feature-matrix test runners of vapoursynth-rs:                      *)
(*     .travis/run-tests.py   and   build/run-tests.py                     *)
(*                                                                         *)
(* A Python string is modelled as a sequence of chunks.  A chunk is either *)
(* the single space character SP or a non-empty run of characters that     *)
(* holds no space ("vapoursynth-api-", "31", "cargo").  The empty string   *)
(* is the empty sequence, and string concatenation (+) is \o.              *)
(***************************************************************************)
EXTENDS Integers, Sequences, FiniteSets, TLC

VARIABLES
    script,          \* which of the two files is being executed
    TRAVIS_OS_NAME,  \* os.environ['TRAVIS_OS_NAME'], or NotSet
    pc,              \* "start", "declared", "loop", "call", "done"
    features,        \* the list of flag groups (the list named features)
    it_started,      \* the product iterator has yielded its first tuple
    indices,         \* the product iterator's position in every pool
    features_tuple,  \* the loop variable (the tuple named features)
    features_string, \* str.join(' ', features)
    someone_failed,  \* .travis/run-tests.py only
    returncode,      \* .travis/run-tests.py only; <<>> while unassigned
    stdout_last,     \* the last line written to standard output
    nprogress,       \* number of "Starting tests ..." lines written
    alive,           \* child processes that have not exited (by number)
    wait_status,     \* <<rc>>: status of an exited, not yet reaped child
    invoked,         \* history: every child spawned, with its argv
    any_nonzero,     \* history: some child returned a non-zero status
    launch_failed,   \* history: spawning the command raised OSError
    exit_status      \* {} while the interpreter runs, then {exit code}

vars == << script, TRAVIS_OS_NAME, pc, features, it_started, indices,
           features_tuple,
           features_string, someone_failed, returncode, stdout_last,
           nprogress, alive, wait_status, invoked, any_nonzero, launch_failed,
           exit_status >>

---------------------------------------------------------------------------
(* The two scripts and their environment                                   *)

TRAVIS == ".travis/run-tests.py"
BUILD == "build/run-tests.py"
Scripts == {TRAVIS, BUILD}

SP == " "

\* TRAVIS_OS_NAME is missing from os.environ
NotSet == "<not set>"

OsNames == {NotSet, "osx", "linux", "windows"}

\* Statuses a child can return: success, cargo's test failure status, and
\* the negative return code Python reports for a child killed by SIGSEGV.
ReturnCodes == {0, 101, -11}

---------------------------------------------------------------------------
(* Python built-ins used by the scripts                                    *)

\* str(v) for an integer v
str(v) == << ToString(v) >>

\* [prefix + str(v) for v in range(first, stop)]
Versions(prefix, first, stop) ==
    [i \in 1..(stop - first) |-> << prefix >> \o str(first + i - 1)]

\* Faulty join: empty elements are left out, which is the joined string
\* with its redundant spaces trimmed.
RECURSIVE join_nonempty(_, _)
join_nonempty(sep, t) ==
    IF Len(t) = 0 THEN << >>
    ELSE IF t[1] = << >> THEN join_nonempty(sep, Tail(t))
    ELSE LET rest == join_nonempty(sep, Tail(t))
         IN IF rest = << >> THEN t[1] ELSE t[1] \o << sep >> \o rest

\* str.join(sep, t): the elements of t, every one of them, with sep between
\* consecutive elements.
RECURSIVE join(_, _)
join(sep, t) ==
    IF Len(t) = 0 THEN << >>
    ELSE IF Len(t) = 1 THEN t[1]
    ELSE t[1] \o << sep >> \o join(sep, Tail(t))

\* itertools.product(*pools) is an iterator that holds one index per pool.
\* Its first tuple takes the first element of every pool (there is none
\* when a pool is empty).  Every later one steps the rightmost index that
\* can still advance and resets the indices to its right; when no index
\* can advance the iterator is exhausted.
HasNext(pools, ind, started) ==
    IF started THEN \E g \in 1..Len(pools) : ind[g] < Len(pools[g])
               ELSE \A g \in 1..Len(pools) : Len(pools[g]) > 0

FirstIndices(pools) == [g \in 1..Len(pools) |-> 1]

\* Faulty carry: an index that has reached the end of its pool is not reset
RECURSIVE Carry_noReset(_, _, _)
Carry_noReset(pools, ind, i) ==
    IF i = 0 THEN ind
    ELSE IF ind[i] < Len(pools[i]) THEN [ind EXCEPT ![i] = ind[i] + 1]
    ELSE Carry_noReset(pools, ind, i - 1)

\* Faulty carry: the first pool is stepped first, the last one last
RECURSIVE Carry_firstFastest(_, _, _)
Carry_firstFastest(pools, ind, i) ==
    LET j == Len(pools) - i + 1 IN
    IF i = 0 THEN ind
    ELSE IF ind[j] < Len(pools[j]) THEN [ind EXCEPT ![j] = ind[j] + 1]
    ELSE Carry_firstFastest(pools, [ind EXCEPT ![j] = 1], i - 1)

RECURSIVE Carry(_, _, _)
Carry(pools, ind, i) ==
    IF i = 0 THEN ind
    ELSE IF ind[i] < Len(pools[i]) THEN [ind EXCEPT ![i] = ind[i] + 1]
    ELSE Carry(pools, [ind EXCEPT ![i] = 1], i - 1)

NextIndices(pools, ind, started) ==
    IF started THEN Carry(pools, ind, Len(pools)) ELSE FirstIndices(pools)

\* The tuple the iterator yields at position ind
TupleAt(pools, ind) == [g \in 1..Len(pools) |-> pools[g][ind[g]]]

\* Faulty loop: the end of the iterator is never noticed
StopIteration_never(pools, ind, started) == FALSE

\* The iterator has no tuple left: the for loop ends
StopIteration(pools, ind, started) == ~HasNext(pools, ind, started)

---------------------------------------------------------------------------
(* The flag groups                                                         *)

VS_API_VERSIONS(s) ==
    IF s = BUILD THEN Versions("vapoursynth-api-", 31, 37)
                 ELSE Versions("vapoursynth-api-", 31, 36)

\* Faulty branch: a missing variable is not taken for a full platform
KeepsVSScriptApi_osxOnly(os) == os = "osx"

\* The branch on TRAVIS_OS_NAME of .travis/run-tests.py
KeepsVSScriptApi(os) == os = NotSet \/ os = "osx"

VSSCRIPT_API_VERSIONS(s, os) ==
    IF s = BUILD \/ KeepsVSScriptApi(os)
        THEN Versions("vsscript-api-", 31, 33)
        ELSE << >>

VAPOURSYNTH_FUNCTIONS == << << "vapoursynth-functions" >> >>
VSSCRIPT_FUNCTIONS == << << "vsscript-functions" >> >>
F16_PIXEL_TYPE == << << "f16-pixel-type" >> >>

\* features = [ ... ]
FeatureList(s, os) ==
    IF s = BUILD
        THEN << VS_API_VERSIONS(s), VSSCRIPT_API_VERSIONS(s, os),
                VAPOURSYNTH_FUNCTIONS, VSSCRIPT_FUNCTIONS, F16_PIXEL_TYPE >>
        ELSE << VS_API_VERSIONS(s), VSSCRIPT_API_VERSIONS(s, os),
                VAPOURSYNTH_FUNCTIONS, VSSCRIPT_FUNCTIONS >>

\* for f in features: f += [""]
AppendEmpty(fs) == [i \in 1..Len(fs) |-> Append(fs[i], << >>)]

\* ['cargo', 'test', '--verbose', '--features', features_string]
Argv(fstr) ==
    << << "cargo" >>, << "test" >>, << "--verbose" >>, << "--features" >>,
       fstr >>

---------------------------------------------------------------------------
(* Decisions taken by the loop body                                        *)

\* Faulty test: a negative return code (a signal) is not a failure
Failed_positive(rc) == rc > 0

\* returncode != 0 (.travis), CalledProcessError under check=True (build)
Failed(rc) == rc # 0

\* Faulty spawn: the child is started and not waited for
PcAfterSpawn_nowait == "loop"

\* subprocess.call and subprocess.run block until the child has exited
PcAfterSpawn == "call"

\* Faulty loop: the first failure ends the run in both scripts
StopsOnFailure_always(s) == TRUE

\* The exception handler of build/run-tests.py leaves the loop
StopsOnFailure(s) == s = BUILD

\* Faulty exit: the failure is reported but the status stays 0
ExitCode_zero(failed) == 0

\* sys.exit(1) when something failed; falling off the end of the script
\* otherwise.
ExitCode(failed) == IF failed THEN 1 ELSE 0

\* An uncaught exception (OSError from the spawn) ends the interpreter
\* with status 1
UncaughtExceptionExit == 1

---------------------------------------------------------------------------
(* Initial state: the interpreter is about to run the script               *)

Init ==
    /\ script \in Scripts
    /\ TRAVIS_OS_NAME \in OsNames
    /\ pc = "start"
    /\ features = << >>
    /\ it_started = FALSE
    /\ indices = << >>
    /\ features_tuple = << >>
    /\ features_string = << >>
    /\ someone_failed = FALSE
    /\ returncode = << >>
    /\ stdout_last = << >>
    /\ nprogress = 0
    /\ alive = {}
    /\ wait_status = << >>
    /\ invoked = << >>
    /\ any_nonzero = FALSE
    /\ launch_failed = FALSE
    /\ exit_status = {}

\* The list literals and the branch on the environment
Declare ==
    /\ pc = "start"
    /\ features' = FeatureList(script, TRAVIS_OS_NAME)
    /\ pc' = "declared"
    /\ UNCHANGED << script, TRAVIS_OS_NAME, it_started, indices, features_tuple,
                    features_string, someone_failed, returncode, stdout_last,
                    nprogress, alive, wait_status, invoked, any_nonzero,
                    launch_failed, exit_status >>

\* The empty option is appended to every group, someone_failed is cleared
\* and the product iterator is created.
Extend ==
    /\ pc = "declared"
    /\ features' = AppendEmpty(features)
    /\ it_started' = FALSE
    /\ indices' = << >>
    /\ someone_failed' = FALSE
    /\ pc' = "loop"
    /\ UNCHANGED << script, TRAVIS_OS_NAME, features_tuple,
                    features_string, returncode, stdout_last, nprogress,
                    alive, wait_status, invoked, any_nonzero, launch_failed,
                    exit_status >>

\* One more tuple is taken, joined and announced, and the child is spawned.
Launch ==
    /\ pc = "loop"
    /\ HasNext(features, indices, it_started)
    /\ it_started' = TRUE
    /\ indices' = NextIndices(features, indices, it_started)
    /\ features_tuple' = TupleAt(features, indices')
    /\ features_string' = join(SP, features_tuple')
    /\ stdout_last' = << "Starting tests with features: " >>
                          \o features_string'
    /\ nprogress' = nprogress + 1
    /\ alive' = alive \cup {Len(invoked) + 1}
    /\ invoked' = Append(invoked,
                         [features |-> features_tuple',
                          argv |-> Argv(features_string')])
    /\ pc' = PcAfterSpawn
    /\ UNCHANGED << script, TRAVIS_OS_NAME, features, someone_failed,
                    returncode, wait_status, any_nonzero, launch_failed,
                    exit_status >>

\* The same, but the command cannot be spawned (cargo is missing, fork
\* fails): OSError is raised, neither script catches it.
LaunchFails ==
    /\ pc = "loop"
    /\ HasNext(features, indices, it_started)
    /\ it_started' = TRUE
    /\ indices' = NextIndices(features, indices, it_started)
    /\ features_tuple' = TupleAt(features, indices')
    /\ features_string' = join(SP, features_tuple')
    /\ stdout_last' = << "Starting tests with features: " >>
                          \o features_string'
    /\ nprogress' = nprogress + 1
    /\ launch_failed' = TRUE
    /\ exit_status' = {UncaughtExceptionExit}
    /\ pc' = "done"
    /\ UNCHANGED << script, TRAVIS_OS_NAME, features, someone_failed,
                    returncode, alive, wait_status, invoked, any_nonzero >>

\* A child exits with some status (the environment's step)
ChildExits ==
    \E k \in alive, rc \in ReturnCodes :
        /\ alive' = alive \ {k}
        /\ wait_status' = << rc >>
        /\ any_nonzero' = (any_nonzero \/ rc # 0)
        /\ UNCHANGED << script, TRAVIS_OS_NAME, pc, features, it_started, indices,
                        features_tuple, features_string, someone_failed,
                        returncode, stdout_last, nprogress, invoked,
                        launch_failed, exit_status >>

\* The blocking call returns the status of the exited child and the rest of
\* the loop body runs: .travis/run-tests.py records the failure and goes on,
\* build/run-tests.py catches CalledProcessError and exits.
CallReturns ==
    /\ pc = "call"
    /\ alive = {}
    /\ wait_status # << >>
    /\ wait_status' = << >>
    /\ LET rc == wait_status[1] IN
        /\ IF script = TRAVIS
             THEN /\ returncode' = << rc >>
                  /\ someone_failed' = (someone_failed \/ Failed(rc))
             ELSE UNCHANGED << returncode, someone_failed >>
        /\ stdout_last' =
             IF ~Failed(rc) THEN stdout_last
             ELSE IF script = TRAVIS
                 THEN << "TEST FAILURE: " >> \o features_string
                 ELSE features_string \o << " failed. Exiting with code 1." >>
        /\ IF Failed(rc) /\ StopsOnFailure(script)
             THEN pc' = "done" /\ exit_status' = {ExitCode(TRUE)}
             ELSE pc' = "loop" /\ UNCHANGED exit_status
    /\ UNCHANGED << script, TRAVIS_OS_NAME, features, it_started, indices,
                    features_tuple, features_string, nprogress, alive,
                    invoked, any_nonzero, launch_failed >>

\* The iterator is exhausted: the code after the loop runs and the
\* interpreter exits.
Finish ==
    /\ pc = "loop"
    /\ StopIteration(features, indices, it_started)
    /\ pc' = "done"
    /\ exit_status' = {ExitCode(script = TRAVIS /\ someone_failed)}
    /\ stdout_last' = IF script = TRAVIS /\ someone_failed
                        THEN << "One of the tests failed, exiting with code 1." >>
                        ELSE stdout_last
    /\ UNCHANGED << script, TRAVIS_OS_NAME, features, it_started, indices,
                    features_tuple, features_string, someone_failed,
                    returncode, nprogress, alive, wait_status, invoked,
                    any_nonzero, launch_failed >>

Next ==
    \/ Declare
    \/ Extend
    \/ Launch
    \/ LaunchFails
    \/ ChildExits
    \/ CallReturns
    \/ Finish

Spec == Init /\ [][Next]_vars

\* Every step the interpreter itself takes
RunnerStep ==
    \/ Declare
    \/ Extend
    \/ Launch
    \/ LaunchFails
    \/ CallReturns
    \/ Finish

\* The interpreter keeps executing, and every child eventually exits.
FairSpec ==
    /\ Init
    /\ [][Next]_vars
    /\ WF_vars(RunnerStep)
    /\ WF_vars(ChildExits)

---------------------------------------------------------------------------
(* The runner on other flag groups: the loop of either script applied to   *)
(* a list of groups drawn from a bounded family (groups of distinct,       *)
(* non-empty, space-free options), among them A = ["x","y"], B = ["p"].    *)

MaxGroups == 2
MaxGroupSize == 2

ScenarioOptions ==
    << << "x", "y", "z" >>, << "p", "q", "r" >>, << "a", "b", "c" >> >>

ScenarioGroup(g, n) == [i \in 1..n |-> << ScenarioOptions[g][i] >>]

ScenarioFeatureLists ==
    UNION { { [g \in 1..n |-> ScenarioGroup(g, sz[g])] :
                sz \in [1..n -> 1..MaxGroupSize] } : n \in 1..MaxGroups }

InitScenario ==
    /\ script \in Scripts
    /\ TRAVIS_OS_NAME = NotSet
    /\ pc = "declared"
    /\ features \in ScenarioFeatureLists
    /\ it_started = FALSE
    /\ indices = << >>
    /\ features_tuple = << >>
    /\ features_string = << >>
    /\ someone_failed = FALSE
    /\ returncode = << >>
    /\ stdout_last = << >>
    /\ nprogress = 0
    /\ alive = {}
    /\ wait_status = << >>
    /\ invoked = << >>
    /\ any_nonzero = FALSE
    /\ launch_failed = FALSE
    /\ exit_status = {}

NextScenario ==
    \/ Extend
    \/ Launch
    \/ LaunchFails
    \/ ChildExits
    \/ CallReturns
    \/ Finish

SpecScenario == InitScenario /\ [][NextScenario]_vars

---------------------------------------------------------------------------
(* Vocabulary of the properties                                            *)

\* Product of the group sizes
RECURSIVE ProductSize(_)
ProductSize(fs) ==
    IF Len(fs) = 0 THEN 1
    ELSE Len(fs[Len(fs)]) * ProductSize(SubSeq(fs, 1, Len(fs) - 1))

\* t takes one option from every group, in group order
InProduct(t) ==
    /\ Len(t) = Len(features)
    /\ \A g \in 1..Len(features) :
          \E p \in 1..Len(features[g]) : features[g][p] = t[g]

\* Position of option x in its group
PosIn(group, x) == CHOOSE p \in 1..Len(group) : group[p] = x

\* a comes before b in the lexicographic order of the product: at the first
\* group where they differ, a's option is listed before b's.
LexBefore(a, b) ==
    \E g \in 1..Len(features) :
        /\ a[g] # b[g]
        /\ \A h \in 1..(g - 1) : a[h] = b[h]
        /\ PosIn(features[g], a[g]) < PosIn(features[g], b[g])

\* Number of tuples that come before t in that order
RECURSIVE Rank(_, _)
Rank(t, g) ==
    IF g = 0 THEN 0
    ELSE Rank(t, g - 1) * Len(features[g]) + (PosIn(features[g], t[g]) - 1)

\* Python's s.split(' ')
RECURSIVE split(_)
split(s) ==
    IF \A i \in 1..Len(s) : s[i] # SP THEN << s >>
    ELSE LET i == CHOOSE j \in 1..Len(s) :
                     s[j] = SP /\ \A h \in 1..(j - 1) : s[h] # SP
         IN << SubSeq(s, 1, i - 1) >> \o split(SubSeq(s, i + 1, Len(s)))

\* Number of spaces in s
Spaces(s) == Cardinality({i \in 1..Len(s) : s[i] = SP})

\* s with leading, trailing and repeated spaces removed
RECURSIVE Trimmed(_)
Trimmed(s) ==
    IF Len(s) = 0 THEN s
    ELSE IF s[1] = SP THEN Trimmed(Tail(s))
    ELSE IF s[Len(s)] = SP THEN Trimmed(SubSeq(s, 1, Len(s) - 1))
    ELSE IF \E i \in 1..(Len(s) - 1) : s[i] = SP /\ s[i + 1] = SP
        THEN LET i == CHOOSE j \in 1..(Len(s) - 1) : s[j] = SP /\ s[j + 1] = SP
             IN Trimmed(SubSeq(s, 1, i) \o SubSeq(s, i + 2, Len(s)))
    ELSE s

\* The run ended with every spawn having succeeded
EndedLaunched == pc = "done" /\ ~launch_failed

\* Number of combinations the script's groups give
ExpectedCount ==
    IF script = BUILD THEN 168
    ELSE IF TRAVIS_OS_NAME \in {NotSet, "osx"} THEN 72 ELSE 24

---------------------------------------------------------------------------
(* C1: non-short-circuiting                                                *)

---------------------------------------------------------------------------
(* C2: exit status                                                         *)

\* C2: the run ends with exit code 1 when some child returned a non-zero
\* status (a negative one included) and with exit code 0 when every
\* combination was invoked and every child returned 0.
C2_ExitStatus ==
    pc = "done" =>
        /\ any_nonzero => exit_status = {1}
        /\ (~any_nonzero /\ ~launch_failed) => exit_status = {0}

C2_Witness ==
    /\ script = TRAVIS
    /\ pc = "done"
    /\ returncode = << -11 >>
    /\ ~launch_failed
    /\ exit_status = {1}

---------------------------------------------------------------------------
(* C3: exactly-once coverage                                               *)

---------------------------------------------------------------------------
(* C4: attempt order                                                       *)

\* C4: combinations are invoked in the lexicographic order of the product,
\* first group slowest, last group fastest, each group in its listed order
\* with the empty option last: of two invoked combinations the one that
\* comes first in that order is invoked first, and the k-th invocation is
\* the k-th tuple of that order.
C4_LexicographicOrder ==
    /\ \A i \in 1..Len(invoked) : \A j \in (i + 1)..Len(invoked) :
          LexBefore(invoked[i].features, invoked[j].features)
    /\ \A k \in 1..Len(invoked) :
          Rank(invoked[k].features, Len(features)) = k - 1
    /\ \A g \in 1..Len(features) :
          pc \in {"loop", "call", "done"}
              => features[g][Len(features[g])] = << >>

C4_Witness ==
    /\ script = BUILD
    /\ Len(invoked) = 25
    /\ invoked[24].features[1] = << "vapoursynth-api-", "31" >>
    /\ invoked[25].features[1] = << "vapoursynth-api-", "32" >>
    /\ invoked[24].features[5] = << >>
    /\ invoked[25].features[5] = << "f16-pixel-type" >>

---------------------------------------------------------------------------
(* C5: verbatim join                                                       *)

\* C5: the value passed after --features is one argument holding every
\* element of the tuple, empty ones included, with exactly one space
\* between consecutive elements and nothing trimmed or collapsed: splitting
\* it at the spaces gives the tuple back, and a tuple of N elements gives
\* N - 1 spaces.
C5_VerbatimJoin ==
    \A k \in 1..Len(invoked) :
        /\ Len(invoked[k].argv) = 5
        /\ invoked[k].argv[4] = << "--features" >>
        /\ split(invoked[k].argv[5]) = invoked[k].features
        /\ Spaces(invoked[k].argv[5]) = Len(invoked[k].features) - 1

C5_Witness ==
    /\ script = BUILD
    /\ Len(invoked) = 168
    /\ invoked[168].features = << << >>, << >>, << >>, << >>, << >> >>
    /\ invoked[168].argv[5] = << SP, SP, SP, SP >>

---------------------------------------------------------------------------
(* C6: the combination strings of groups A = ["x","y"], B = ["p"]          *)

\* The groups A and B with the empty option appended
GroupsAB ==
    << << << "x" >>, << "y" >>, << >> >>, << << "p" >>, << >> >> >>

\* "x p", "x", "y p", "y", "p", ""
TrimmedStringsAB ==
    << << "x", SP, "p" >>, << "x" >>, << "y", SP, "p" >>, << "y" >>,
       << "p" >>, << >> >>

\* "x p", "x ", "y p", "y ", " p", " "
RawStringsAB ==
    << << "x", SP, "p" >>, << "x", SP >>, << "y", SP, "p" >>, << "y", SP >>,
       << SP, "p" >>, << SP >> >>

\* The --features arguments passed so far, in order
ArgStrings == [k \in 1..Len(invoked) |-> invoked[k].argv[5]]

\* C6, as stated: every argument string is trimmed of redundant whitespace,
\* and for the groups A, B the six strings passed are, in order,
\* "x p", "x", "y p", "y", "p", "".
C6_TrimmedStrings ==
    features = GroupsAB
        => /\ \A k \in 1..Len(invoked) :
                 Trimmed(invoked[k].argv[5]) = invoked[k].argv[5]
           /\ Len(invoked) = 6 => ArgStrings = TrimmedStringsAB

\* C6, amended: the argument string is the selections joined with single
\* spaces and not trimmed (splitting it at the spaces gives the selections
\* back); for the groups A, B the strings passed are, in order,
\* "x p", "x ", "y p", "y ", " p", " ", none of them is "y", and a run in
\* which a child returned a failing status ends with exit code 1.
C6_RawStrings ==
    /\ \A k \in 1..Len(invoked) :
          split(invoked[k].argv[5]) = invoked[k].features
    /\ features = GroupsAB
          => /\ ArgStrings = SubSeq(RawStringsAB, 1, Len(invoked))
             /\ \A k \in 1..Len(invoked) : invoked[k].argv[5] # << "y" >>
             /\ (EndedLaunched /\ (script = BUILD => ~any_nonzero))
                   => ArgStrings = RawStringsAB
             /\ (pc = "done" /\ any_nonzero) => exit_status = {1}

\* All six were run, "y " among them, a child other than the last failed
C6_Witness ==
    /\ features = GroupsAB
    /\ script = TRAVIS
    /\ pc = "done"
    /\ Len(invoked) = 6
    /\ invoked[4].argv[5] = << "y", SP >>
    /\ someone_failed
    /\ returncode = << 0 >>
    /\ exit_status = {1}

---------------------------------------------------------------------------
(* C7: sequential execution                                                *)

\* C7: at most one child is alive at any time, and while a child has not
\* exited or its status has not been taken the runner is blocked in the
\* call: it has printed no progress line and spawned no child after it.
C7_OneChildAtATime ==
    /\ Cardinality(alive) <= 1
    /\ alive \subseteq {Len(invoked)}
    /\ (alive # {} \/ wait_status # << >>)
          => /\ pc = "call"
             /\ nprogress = Len(invoked)
    /\ pc = "loop" => (alive = {} /\ wait_status = << >>)

C7_Witness ==
    /\ pc = "call"
    /\ alive = {2}
    /\ nprogress = 2
    /\ any_nonzero

---------------------------------------------------------------------------
(* C8: termination                                                         *)

\* C8: when every child eventually exits the runner eventually reaches
\* done, after at most as many rounds as the product has tuples; and as
\* long as a child has not exited the runner stays in the call for that
\* combination and starts no later one.
C8_Termination ==
    /\ <>(pc = "done")
    /\ [](pc \in {"loop", "call", "done"}
            => nprogress <= ProductSize(features))
    /\ [][alive # {} => (pc' = "call" /\ invoked' = invoked
                          /\ nprogress' = nprogress)]_vars

C8_Witness ==
    /\ pc = "done"
    /\ script = TRAVIS
    /\ TRAVIS_OS_NAME = "osx"
    /\ nprogress = 72
    /\ alive = {}

---------------------------------------------------------------------------
(* C9: environment pruning                                                 *)

\* C9: in .travis/run-tests.py the groups are fixed once the matrix is
\* built.  With TRAVIS_OS_NAME set and other than osx the VSScript API
\* group holds the empty option alone, every invoked combination has the
\* empty option second and the matrix has 24 combinations; with the
\* variable absent or osx the group has two options and the matrix has 72.
C9_EnvironmentPruning ==
    (script = TRAVIS /\ pc \in {"loop", "call", "done"}) =>
        IF TRAVIS_OS_NAME # NotSet /\ TRAVIS_OS_NAME # "osx"
        THEN /\ features[2] = << << >> >>
             /\ \A k \in 1..Len(invoked) : invoked[k].features[2] = << >>
             /\ ProductSize(features) = 24
             /\ Len(invoked) <= 24
             /\ (EndedLaunched /\ StopIteration(features, indices, it_started))
                   => Len(invoked) = 24
        ELSE /\ features[2] = << << "vsscript-api-", "31" >>,
                                 << "vsscript-api-", "32" >>, << >> >>
             /\ ProductSize(features) = 72
             /\ Len(invoked) <= 72
             /\ (EndedLaunched /\ StopIteration(features, indices, it_started))
                   => Len(invoked) = 72

C9_Witness ==
    /\ script = TRAVIS
    /\ TRAVIS_OS_NAME = "linux"
    /\ pc = "done"
    /\ Len(invoked) = 24
    /\ exit_status = {0}

---------------------------------------------------------------------------
(* C10: a green result is sound                                            *)

\* C10: the runner exits with status 0 only if every combination of the
\* product was invoked and every child returned 0; a run that ends before
\* the whole product was invoked ends with a non-zero status.
C10_GreenIsSound ==
    /\ 0 \in exit_status
          => /\ pc = "done"
             /\ Len(invoked) = ProductSize(features)
             /\ Len(invoked) = ExpectedCount
             /\ ~any_nonzero
             /\ ~launch_failed
             /\ alive = {}
             /\ wait_status = << >>
    /\ (pc = "done" /\ Len(invoked) < ProductSize(features))
          => (exit_status # {} /\ 0 \notin exit_status)

C10_Witness ==
    /\ script = BUILD
    /\ pc = "done"
    /\ launch_failed
    /\ Len(invoked) = 3
    /\ exit_status = {1}

=============================================================================
